---- MODULE Spec2Model ----
(***************************************************************************)
(* Model of the genai-be gateway: the HTTP controllers (GeminiController,  *)
(* LmStudioController), the two provider adapters (GeminiService,          *)
(* LmStudioService) and the conversation reconciliation they perform.      *)
(*                                                                         *)
(* A JavaScript string is a sequence of tokens (one-character strings such *)
(* as "a" and " ", and whole literals of the source such as "User: ").     *)
(* The value `undefined` of an optional string is the sequence Undefined.  *)
(***************************************************************************)
EXTENDS Integers, Sequences, FiniteSets, TLC

\* ------------------------------------------------------------------ bounds

\* longest `messages` array of a chat request
MaxMsgs == 2

\* Gemini operations in flight at the same time
NumRequests == 2

\* ----------------------------------------------------------------- strings

Undefined == <<"undefined">>
Empty == <<>>

Whitespace == {" ", "\n", "\n\n"}

IsString(s) == s # Undefined

\* JavaScript truthiness of an optional string
Truthy(s) == s # Undefined /\ s # Empty

RECURSIVE trimStart(_)
trimStart(s) ==
  IF s # <<>> /\ Head(s) \in Whitespace THEN trimStart(Tail(s)) ELSE s

RECURSIVE trimEnd(_)
trimEnd(s) ==
  IF s # <<>> /\ s[Len(s)] \in Whitespace
  THEN trimEnd(SubSeq(s, 1, Len(s) - 1))
  ELSE s

\* String.prototype.trim
trim(s) == trimEnd(trimStart(s))

\* Array.prototype.join over a sequence of strings
RECURSIVE join(_, _)
join(list, sep) ==
  IF list = <<>> THEN Empty
  ELSE IF Len(list) = 1 THEN list[1]
  ELSE list[1] \o sep \o join(Tail(list), sep)

\* String.prototype.toLowerCase, token by token
lowerToken(t) ==
  CASE t = "LMStudio" -> "lmstudio"
    [] t = "LMSTUDIO" -> "lmstudio"
    [] t = "Gemini" -> "gemini"
    [] t = "OpenAI" -> "openai"
    [] OTHER -> t

toLowerCase(s) == [i \in DOMAIN s |-> lowerToken(s[i])]

\* ------------------------------------------- GeminiService: reconciliation

\* mapMessagesToHistory returns the history and pushes the system messages on
\* the `instructions` array it is given; both are returned here.
RECURSIVE mapMessagesToHistory(_, _)
mapMessagesToHistory(messages, instructions) ==
  IF messages = <<>> THEN [history |-> <<>>, instructions |-> instructions]
  ELSE
    LET message == Head(messages)
        text == trim(message.content)
    IN IF ~Truthy(message.content) \/ ~Truthy(text)
       THEN mapMessagesToHistory(Tail(messages), instructions)
       ELSE IF message.role = "system"
       THEN mapMessagesToHistory(Tail(messages), Append(instructions, text))
       ELSE
         LET role == IF message.role = "assistant" THEN "model" ELSE "user"
             rest == mapMessagesToHistory(Tail(messages), instructions)
         IN [history |-> <<[role |-> role, text |-> text]>> \o rest.history,
             instructions |-> rest.instructions]

\* a ChatContent of this service has exactly one part, {text}
firstTextPart(content) ==
  IF IsString(content.text) /\ Truthy(trim(content.text))
  THEN content.text
  ELSE Undefined

\* prepareChatPayload taking the prompt from the last user turn and leaving
\* that turn in the history
prepareChatPayload_NoPop(prompt, history) ==
  LET p0 == trim(prompt)
      take == /\ ~Truthy(p0)
              /\ Len(history) > 0
              /\ history[Len(history)].role = "user"
      promptToSend == IF take THEN history[Len(history)].text ELSE p0
  IN IF ~Truthy(promptToSend)
     THEN [error |-> TRUE, promptToSend |-> Empty, historyForSession |-> <<>>]
     ELSE [error |-> FALSE, promptToSend |-> promptToSend,
           historyForSession |-> history]

\* prepareChatPayload popping a trailing user turn whether or not a prompt
\* was given
prepareChatPayload_AlwaysPop(prompt, history) ==
  LET p0 == trim(prompt)
      pop == Len(history) > 0 /\ history[Len(history)].role = "user"
      promptToSend == IF Truthy(p0) THEN p0
                      ELSE IF pop THEN history[Len(history)].text ELSE p0
  IN IF ~Truthy(promptToSend)
     THEN [error |-> TRUE, promptToSend |-> Empty, historyForSession |-> <<>>]
     ELSE [error |-> FALSE, promptToSend |-> promptToSend,
           historyForSession |->
             IF pop THEN SubSeq(history, 1, Len(history) - 1) ELSE history]

\* the result, or [error |-> TRUE] when prepareChatPayload throws
prepareChatPayload(prompt, history) ==
  LET p0 == trim(prompt)
      last == history[Len(history)]
      pop == /\ ~Truthy(p0)
             /\ Len(history) > 0
             /\ last.role = "user"
             /\ Truthy(firstTextPart(last))
      promptToSend == IF pop THEN firstTextPart(last) ELSE p0
      historyForSession ==
        IF pop THEN SubSeq(history, 1, Len(history) - 1) ELSE history
  IN IF ~Truthy(promptToSend)
     THEN [error |-> TRUE, promptToSend |-> Empty, historyForSession |-> <<>>]
     ELSE [error |-> FALSE, promptToSend |-> promptToSend,
           historyForSession |-> historyForSession]

\* combineInstructions joining with a single line break
combineInstructions_Newline(instructions) ==
  LET trimmed == [i \in DOMAIN instructions |-> trim(instructions[i])]
      cleaned == SelectSeq(trimmed, Truthy)
  IN IF cleaned = <<>> THEN Undefined ELSE join(cleaned, <<"\n">>)

combineInstructions(instructions) ==
  LET trimmed == [i \in DOMAIN instructions |-> trim(instructions[i])]
      cleaned == SelectSeq(trimmed, Truthy)
  IN IF cleaned = <<>> THEN Undefined ELSE join(cleaned, <<"\n\n">>)

RECURSIVE fallbackLines(_)
fallbackLines(history) ==
  IF history = <<>> THEN <<>>
  ELSE
    LET entry == Head(history)
        label == IF entry.role = "user" THEN "User: " ELSE "Assistant: "
        text == firstTextPart(entry)
    IN (IF Truthy(text) THEN <<(<<label>> \o text)>> ELSE <<>>)
         \o fallbackLines(Tail(history))

buildFallbackPrompt(history, instructionText) ==
  LET sys == IF Truthy(instructionText)
             THEN <<(<<"System: ">> \o instructionText)>>
             ELSE <<>>
  IN join(sys \o fallbackLines(history), <<"\n">>)

\* the value of `x?.()` for a property x that may hold a function: a record
\* [kind, value] with kind "undefined" (no such property), "function"
\* (calling it returns value) or "string" (a property that is not callable)
NoFn == [kind |-> "undefined", value |-> Undefined]
Fn(v) == [kind |-> "function", value |-> v]
NotFn(v) == [kind |-> "string", value |-> v]

NoResponse ==
  [present |-> FALSE, output_text |-> Undefined, text |-> NoFn,
   candidates |-> Undefined]

\* the response object as the argument of extractText
AsResult(response) ==
  [output_text |-> response.output_text, text |-> response.text,
   candidates |-> response.candidates, response |-> NoResponse]

\* extractText: [threw, value]. `a ?? b` yields a unless a is null or
\* undefined; `x?.()` throws a TypeError when x is neither nullish nor callable.
\* `candidates` stands for candidates[0].content.parts[0].text.
extractText(result) ==
  LET Ok(v) == [threw |-> FALSE, value |-> v]
      Threw == [threw |-> TRUE, value |-> Undefined]
      rt == IF result.response.present THEN result.response.text ELSE NoFn
      rc == IF result.response.present
            THEN result.response.candidates ELSE Undefined
  IN IF result.output_text # Undefined THEN Ok(result.output_text)
     ELSE IF rt.kind = "string" THEN Threw
     ELSE IF rt.kind = "function" /\ rt.value # Undefined THEN Ok(rt.value)
     ELSE IF result.text.kind = "string" THEN Threw
     ELSE IF result.text.kind = "function" /\ result.text.value # Undefined
       THEN Ok(result.text.value)
     ELSE IF result.candidates # Undefined THEN Ok(result.candidates)
     ELSE Ok(rc)

\* ------------------------------------------------ LmStudioService: helpers

\* resolveModel choosing the request model as it was given, untrimmed
resolveModel_NoTrim(model, defaultModel) ==
  LET chosen == IF Truthy(model) THEN model ELSE defaultModel
  IN [threw |-> ~Truthy(chosen), value |-> chosen]

\* [threw, value]
resolveModel(model, defaultModel) ==
  LET t == IF IsString(model) THEN trim(model) ELSE Undefined
      chosen == IF Truthy(t) THEN t ELSE defaultModel
  IN [threw |-> ~Truthy(chosen), value |-> chosen]

RECURSIVE mapPriorConversation(_)
mapPriorConversation(history) ==
  IF history = <<>> THEN <<>>
  ELSE
    LET m == Head(history)
        content == trim(IF IsString(m.content) THEN m.content ELSE Empty)
        role == IF m.role = "assistant" THEN "assistant"
                ELSE IF m.role = "system" THEN "system" ELSE "user"
    IN (IF ~Truthy(content) THEN <<>>
        ELSE <<[role |-> role, content |-> content]>>)
         \o mapPriorConversation(Tail(history))

PlaceholderUserMessage ==
  [role |-> "user", content |-> <<"Please respond to the conversation above.">>]

\* composeChatMessages without its last step, the one that makes sure a user
\* message is present
composeChatMessages_NoPlaceholder(history, systemInstruction, latestPrompt) ==
  LET sys == IF IsString(systemInstruction) /\ Truthy(trim(systemInstruction))
             THEN <<[role |-> "system", content |-> trim(systemInstruction)]>>
             ELSE <<>>
      latest == IF IsString(latestPrompt) /\ Truthy(trim(latestPrompt))
                THEN <<[role |-> "user", content |-> trim(latestPrompt)]>>
                ELSE <<>>
  IN sys \o mapPriorConversation(history) \o latest

composeChatMessages(history, systemInstruction, latestPrompt) ==
  LET sys == IF IsString(systemInstruction) /\ Truthy(trim(systemInstruction))
             THEN <<[role |-> "system", content |-> trim(systemInstruction)]>>
             ELSE <<>>
      latest == IF IsString(latestPrompt) /\ Truthy(trim(latestPrompt))
                THEN <<[role |-> "user", content |-> trim(latestPrompt)]>>
                ELSE <<>>
      messages == sys \o mapPriorConversation(history) \o latest
  IN IF \E i \in DOMAIN messages : messages[i].role = "user"
     THEN messages
     ELSE Append(messages, PlaceholderUserMessage)

\* the OpenAI-compatible body LM Studio answers with. choices_content is
\* choices[0].message.content: [kind, value] with kind "undefined", "string"
\* (value is the text) or "parts" (value is the sequence of each part's
\* `text || content || ''`); choices_text is choices[0].text; error_message
\* is error.message of an error object, error an error given as a string.
NoContent == [kind |-> "undefined", value |-> Undefined]

EmptyBody ==
  [choices_content |-> NoContent, choices_text |-> Undefined,
   output_text |-> Undefined, text |-> Undefined,
   error_message |-> Undefined, error |-> Undefined, message |-> Undefined]

\* a || b
Or(a, b) == IF Truthy(a) THEN a ELSE b

extractChatChoiceText(result) ==
  LET content == result.choices_content
      partsText == join(SelectSeq(content.value, LAMBDA t : Truthy(trim(t))),
                        <<"\n">>)
  IN IF content.kind = "string" THEN content.value
     ELSE IF content.kind = "parts" /\ Truthy(trim(partsText)) THEN partsText
     ELSE Or(result.output_text, Or(result.text, Or(result.choices_text, Empty)))

\* composeUrl leaving the path out
composeUrl_NoPath(baseUrl, path) == baseUrl

composeUrl(baseUrl, path) ==
  LET cleanPath == IF path # <<>> /\ Head(path) = "/" THEN path
                   ELSE <<"/">> \o path
  IN baseUrl \o cleanPath

\* a content part: {text} or {inlineData: {data, mimeType}}; `data` is kept
\* as the length of the base64 string
TextPart(t) ==
  [text |-> t, inlineData |-> FALSE, dataLength |-> 0, mimeType |-> Undefined]

\* Buffer.toString('base64') of n bytes has 4 * ceil(n / 3) characters
buildInlineDataPart(bytes, mimeType) ==
  [text |-> Undefined, inlineData |-> TRUE,
   dataLength |-> 4 * ((bytes + 2) \div 3), mimeType |-> mimeType]

RECURSIVE coerceLines(_)
coerceLines(parts) ==
  IF parts = <<>> THEN <<>>
  ELSE
    LET p == Head(parts)
        mime == IF p.inlineData /\ Truthy(p.mimeType) THEN p.mimeType
                ELSE <<"application/octet-stream">>
        bytes == IF p.inlineData THEN p.dataLength ELSE 0
        line == IF IsString(p.text) /\ Truthy(trim(p.text)) THEN trim(p.text)
                ELSE <<"[Attachment: ">> \o mime \o <<", ", ToString(bytes),
                       " bytes; content omitted in local text-only mode]">>
    IN <<line>> \o coerceLines(Tail(parts))

coercePartsToText(parts) ==
  LET lines == coerceLines(parts)
  IN IF lines # <<>> THEN join(lines, <<"\n\n">>) ELSE <<"(no content)">>

\* a thrown value: [kind, message] with kind "string" (the value is the
\* string `message`), "error" (an object with a message field), "object" (an
\* object without one, which JSON.stringify serializes) or "circular" (an
\* object without one on which JSON.stringify throws)
NoThrown == [kind |-> "none", message |-> Undefined]

JsError(message) == [kind |-> "error", message |-> message]

\* normalizeError putting "Error: " before the message of an error object
normalizeError_Prefixed(err) ==
  IF err.kind = "string" THEN err.message
  ELSE IF Truthy(err.message) THEN <<"Error: ">> \o err.message
  ELSE IF err.kind = "circular" THEN <<"Unknown error">>
  ELSE <<"JSON.stringify(err)">>

normalizeError(err) ==
  IF err.kind = "string" THEN err.message
  ELSE IF Truthy(err.message) THEN err.message
  ELSE IF err.kind = "circular" THEN <<"Unknown error">>
  ELSE <<"JSON.stringify(err)">>

\* what the boundary receives of a value thrown under `depth` nested
\* operations, each of which catches it and throws
\* new InternalServerErrorException(this.normalizeError(err)), an object whose
\* message field is that string
RECURSIVE Caught(_, _)
Caught(err, depth) ==
  IF depth <= 1 THEN normalizeError(err)
  ELSE normalizeError(JsError(Caught(err, depth - 1)))

\* -------------------------------------------------------------- controllers

LmStudioId == <<"lmstudio">>

\* shouldUseLmStudio comparing without toLowerCase
shouldUseLmStudio_CaseSensitive(provider, DEFAULT_PROVIDER) ==
  IF Truthy(provider) THEN provider = LmStudioId
  ELSE DEFAULT_PROVIDER = LmStudioId

\* GeminiController.shouldUseLmStudio
shouldUseLmStudio(provider, DEFAULT_PROVIDER) ==
  LET p == IF IsString(provider) THEN toLowerCase(provider) ELSE Undefined
      def == IF IsString(DEFAULT_PROVIDER) THEN toLowerCase(DEFAULT_PROVIDER)
             ELSE Undefined
  IN IF Truthy(p) THEN p = LmStudioId ELSE def = LmStudioId

\* ensureProviderIsLmStudio accepting every selector
ensureProviderIsLmStudio_Never(provider) == FALSE

\* LmStudioController.ensureProviderIsLmStudio: TRUE when it throws
ensureProviderIsLmStudio(provider) ==
  IF ~Truthy(provider) THEN FALSE
  ELSE toLowerCase(provider) # LmStudioId

\* [...messages].reverse().find(role === 'user' && typeof content === 'string')
lastUserMessage(messages) ==
  LET hits == {i \in DOMAIN messages :
                 messages[i].role = "user" /\ IsString(messages[i].content)}
  IN IF hits = {} THEN [role |-> "user", content |-> Undefined]
     ELSE messages[CHOOSE i \in hits : \A j \in hits : j <= i]

\* effectivePrompt deriving the prompt from the last message of any role
effectivePrompt_AnyRole(prompt, messages) ==
  LET trimmedPrompt == IF IsString(prompt) THEN trim(prompt) ELSE Empty
  IN IF Truthy(trimmedPrompt) THEN trimmedPrompt
     ELSE IF messages # <<>> /\ Truthy(messages[Len(messages)].content)
     THEN trim(messages[Len(messages)].content)
     ELSE trimmedPrompt

\* the prompt the chat endpoints resolve before the `prompt is required` test
\* (the same lines in GeminiController.chatWithGemini and
\* LmStudioController.chatWithLmStudio)
effectivePrompt(prompt, messages) ==
  LET trimmedPrompt == IF IsString(prompt) THEN trim(prompt) ELSE Empty
      last == lastUserMessage(messages)
  IN IF Truthy(trimmedPrompt) THEN trimmedPrompt
     ELSE IF Truthy(last.content) THEN trim(last.content)
     ELSE trimmedPrompt

\* ------------------------------------------------------------------- inputs

\* the messages of a chat request: user messages that are blank, plain and
\* padded, assistant messages with empty and plain content, system messages
\* that are blank, plain and padded, and a message of an unknown role
Messages ==
  [role : {"user"}, content : {<<" ">>, <<"a">>, <<" ", "b">>}]
  \cup [role : {"assistant"}, content : {Empty, <<"c">>}]
  \cup [role : {"system"}, content : {<<" ">>, <<"s">>, <<"z", " ">>}]
  \cup [role : {"tool"}, content : {<<"t">>}]
MessageLists == UNION {[1..n -> Messages] : n \in 0..MaxMsgs}

Prompts == {Undefined, <<" ">>, <<"p", " ">>}
SystemInstructions == {Undefined, <<" ">>, <<"e", " ">>}
Models == {Undefined, <<"m", " ">>}
Providers ==
  {Undefined, Empty, <<"lmstudio">>, <<"LMStudio">>, <<"gemini">>, <<"OpenAI">>}

\* message lists of the requests that vary the other fields
ShortLists ==
  {<<>>, <<[role |-> "user", content |-> <<"a">>]>>,
   <<[role |-> "assistant", content |-> <<"c">>]>>,
   <<[role |-> "system", content |-> <<"s">>]>>}

\* an absent or non-array `messages` is handled as [] everywhere
\* (`Array.isArray(messages) ? messages : undefined`, `request.messages ?? []`)
ChatBodies ==
  [prompt : {Undefined, <<"p", " ">>}, model : {Undefined},
   systemInstruction : {Undefined, <<"e", " ">>},
   messages : MessageLists, provider : {Undefined}]
  \cup
  [prompt : Prompts, model : {Undefined},
   systemInstruction : SystemInstructions,
   messages : ShortLists, provider : {Undefined}]
  \cup
  [prompt : {Undefined, <<"p", " ">>}, model : Models \cup {<<" ">>},
   systemInstruction : {Undefined}, messages : ShortLists,
   provider : Providers]

TextBodies ==
  [prompt : {Undefined, Empty, <<" ">>, <<"p", " ">>}, model : Models,
   systemInstruction : SystemInstructions, messages : {<<>>},
   provider : Providers]

UploadKinds == {"image", "document", "audio"}
NoFile == [present |-> FALSE, bytes |-> 0, mimetype |-> Undefined]
Files ==
  {NoFile} \cup [present : {TRUE}, bytes : {1, 100}, mimetype : {<<"image/png">>}]

PromptBodies ==
  [prompt : {Undefined, <<"p", " ">>}, model : Models,
   systemInstruction : {Undefined, <<"s", " ">>}, messages : {<<>>},
   provider : {Undefined, <<"LMStudio">>, <<"OpenAI">>}]

\* the capabilities a client built from @google/genai may expose
PrimaryCaps == SUBSET {"chats.create", "responses.generate"}
LegacyCaps == {"getGenerativeModel"}

\* what a provider call may fail with
ProviderErrors ==
  {[kind |-> "error", message |-> <<"quota exceeded">>],
   [kind |-> "string", message |-> <<"boom">>],
   [kind |-> "object", message |-> Undefined],
   [kind |-> "circular", message |-> Undefined]}

NoRaw ==
  [output_text |-> Undefined, text |-> NoFn, candidates |-> Undefined,
   response |-> NoResponse]

\* raw results of the Gemini SDK calls
GeminiRaws ==
  {NoRaw,
   [NoRaw EXCEPT !.output_text = <<"o">>],
   [NoRaw EXCEPT !.text = Fn(<<"t">>)],
   [NoRaw EXCEPT !.text = NotFn(<<"t">>)],
   [NoRaw EXCEPT !.candidates = <<"c">>],
   [NoRaw EXCEPT !.output_text = Empty, !.candidates = <<"c">>],
   [NoRaw EXCEPT !.response = [NoResponse EXCEPT !.present = TRUE]],
   [NoRaw EXCEPT !.response =
      [NoResponse EXCEPT !.present = TRUE, !.text = Fn(<<"r">>)]],
   [NoRaw EXCEPT !.response =
      [NoResponse EXCEPT !.present = TRUE, !.candidates = <<"d">>]]}

\* JSON bodies of LM Studio answers with a success status
LmBodies ==
  {EmptyBody,
   [EmptyBody EXCEPT !.choices_content = [kind |-> "string", value |-> <<"x">>]],
   [EmptyBody EXCEPT !.choices_content = [kind |-> "string", value |-> Empty]],
   [EmptyBody EXCEPT !.choices_content = [kind |-> "string", value |-> Empty],
                     !.output_text = <<"o">>],
   [EmptyBody EXCEPT !.choices_content =
      [kind |-> "parts", value |-> <<<<"x">>, Empty, <<"y">>>>]],
   [EmptyBody EXCEPT !.choices_content = [kind |-> "parts", value |-> <<>>],
                     !.output_text = <<"o">>],
   [EmptyBody EXCEPT !.choices_text = <<"c">>]}

\* JSON bodies of LM Studio answers with a failure status
LmErrorBodies ==
  {EmptyBody,
   [EmptyBody EXCEPT !.error_message = <<"model not loaded">>],
   [EmptyBody EXCEPT !.error = <<"bad request">>, !.message = <<"other">>]}

HttpStatuses == {404}

\* --------------------------------------------------------------------- state

VARIABLES
  defaultProvider,  \* process.env.DEFAULT_PROVIDER
  lmDefaultModel,   \* LmStudioService.defaultModel
  apiKey,           \* whether GEMINI_API_KEY or GOOGLE_API_KEY is set
  client,           \* GeminiService.client
  clientMode,       \* GeminiService.clientMode
  pc,               \* where the request in flight stands
  request,          \* the inbound request: route, body, uploaded file
  svc,              \* the adapter operation in progress and its arguments
  adapterOps,       \* the adapter operations invoked for the request
  providerCalls,    \* the outbound provider calls made for the request
  raw,              \* what the provider answered
  http,             \* the response to the caller
  flights,          \* the Gemini operations in flight side by side
  warned            \* what the primary attempt of ensureClient logged

vars ==
  <<defaultProvider, lmDefaultModel, apiKey, flights, warned, client, clientMode, pc, request,
    svc, adapterOps, providerCalls, raw, http>>

NoClient == [surface |-> "none", caps |-> {}]

NoBody ==
  [prompt |-> Undefined, model |-> Undefined, systemInstruction |-> Undefined,
   messages |-> <<>>, provider |-> Undefined]

NoSvc ==
  [adapter |-> "none", op |-> "none", prompt |-> Undefined,
   model |-> Undefined, systemInstruction |-> Undefined, messages |-> <<>>,
   parts |-> <<>>]

\* fetch rejected, or the status and body of the response
NoLmAnswer ==
  [delivered |-> FALSE, ok |-> FALSE, status |-> 0, json |-> FALSE,
   body |-> EmptyBody]

\* `answer` is what LM Studio answered and `lm` the data postJson makes of it
NoAnswer ==
  [adapter |-> "none", ok |-> FALSE, gemini |-> NoRaw, lm |-> EmptyBody,
   answer |-> NoLmAnswer]

\* `cause` is the value thrown inside the adapter, when there is one
NoHttp ==
  [status |-> 0, kind |-> "none", message |-> Undefined, model |-> Undefined,
   text |-> Undefined, cause |-> NoThrown]

NoRequest == [route |-> "none", body |-> NoBody, file |-> NoFile]

\* no operation in flight; `constructed` counts the clients constructed and
\* `owner` is the operation whose client is retained (0: none)
NoFlights ==
  [at |-> [r \in 1..NumRequests |-> "idle"], constructed |-> 0, owner |-> 0]

\* LmStudioService.baseUrl with LMSTUDIO_BASE_URL unset
baseUrl == <<"http://localhost:1234">>

\* GeminiService.defaultModel with GEMINI_MODEL unset
geminiDefaultModel == <<"gemini-1.5-flash">>

Init ==
  /\ defaultProvider \in {Undefined, <<"LMSTUDIO">>, <<"gemini">>}
  /\ lmDefaultModel \in {Undefined, <<"d">>}
  /\ apiKey \in BOOLEAN
  /\ client = NoClient
  /\ clientMode = "null"
  /\ pc = "idle"
  /\ request = NoRequest
  /\ svc = NoSvc
  /\ adapterOps = <<>>
  /\ providerCalls = <<>>
  /\ raw = NoAnswer
  /\ http = NoHttp
  /\ flights = NoFlights
  /\ warned = NoThrown

\* ------------------------------------------------------- responses, calls

Respond(status, kind, message, model, text) ==
  /\ http' = [status |-> status, kind |-> kind, message |-> message,
              model |-> model, text |-> text, cause |-> NoThrown]
  /\ pc' = "done"

\* throw new BadRequestException(message)
BadRequest(message) == Respond(400, "exception", message, Undefined, Undefined)

\* `err` is thrown under `depth` nested operations: the outermost throws
\* new InternalServerErrorException(this.normalizeError(err))
InternalServerError(err, depth) ==
  /\ http' = [NoHttp EXCEPT !.status = 500, !.kind = "exception",
                            !.message = Caught(err, depth), !.cause = err]
  /\ pc' = "done"

\* return { error: message } under @HttpCode(HttpStatus.OK)
ReturnError(message) == Respond(200, "error", message, Undefined, Undefined)

\* return { model, text }
ReturnResult(model, text) == Respond(200, "result", Undefined, model, text)

NoModelMessage ==
  <<"No LM Studio model configured. Provide model in the request or set LMSTUDIO_MODEL in environment.">>

NoCall ==
  [adapter |-> "none", kind |-> "none", url |-> Undefined, model |-> Undefined,
   systemInstruction |-> Undefined, history |-> <<>>, input |-> Undefined,
   parts |-> <<>>, messages |-> <<>>]

\* a request arrives (no other is in flight): nothing called, nothing answered
Fresh(req) ==
  /\ request' = req
  /\ raw' = NoAnswer

\* the payload of a call that is on its way
Sent(call) ==
  [NoCall EXCEPT !.adapter = call.adapter, !.kind = call.kind,
                 !.url = call.url, !.model = call.model]

\* The provider has answered. Nothing reads the payloads again: the state
\* keeps the route, the operation, and each call's kind, url and model.
Settled ==
  /\ request' = [request EXCEPT !.body = NoBody, !.file = NoFile]
  /\ svc' = [NoSvc EXCEPT !.adapter = svc.adapter, !.op = svc.op]
  /\ providerCalls' = [i \in DOMAIN providerCalls |-> Sent(providerCalls[i])]

\* ------------------------------------------------- LmStudioService: operations

\* LmPost keeping the model of the request as the default of later requests
LmPost_StickyModel(op, args, messages) ==
  LET modelName == resolveModel(args.model, lmDefaultModel)
      url == composeUrl(baseUrl, <<"/", "v1/chat/completions">>)
  IN /\ svc' = [args EXCEPT !.adapter = "lmstudio", !.op = op]
     /\ adapterOps' = <<[adapter |-> "lmstudio", op |-> op]>>
     /\ UNCHANGED <<client, clientMode, defaultProvider, apiKey, flights, warned>>
     /\ IF modelName.threw
        THEN /\ providerCalls' = <<>>
             /\ InternalServerError(JsError(NoModelMessage), 1)
             /\ UNCHANGED lmDefaultModel
        ELSE /\ providerCalls' =
                  <<[NoCall EXCEPT !.adapter = "lmstudio", !.kind = "POST",
                                   !.url = url, !.model = modelName.value,
                                   !.messages = messages]>>
             /\ lmDefaultModel' = modelName.value
             /\ http' = NoHttp
             /\ pc' = "lm.await"

\* resolveModel, then postJson('/v1/chat/completions', {model, messages}) up
\* to its `await fetch`; the catch of the operation turns a throw into an
\* InternalServerErrorException
LmPost(op, args, messages) ==
  LET modelName == resolveModel(args.model, lmDefaultModel)
      url == composeUrl(baseUrl, <<"/", "v1/chat/completions">>)
  IN /\ svc' = [args EXCEPT !.adapter = "lmstudio", !.op = op]
     /\ adapterOps' = <<[adapter |-> "lmstudio", op |-> op]>>
     /\ UNCHANGED <<client, clientMode, defaultProvider, lmDefaultModel, apiKey, flights, warned>>
     /\ IF modelName.threw
        THEN /\ providerCalls' = <<>>
             /\ InternalServerError(JsError(NoModelMessage), 1)
        ELSE /\ providerCalls' =
                  <<[NoCall EXCEPT !.adapter = "lmstudio", !.kind = "POST",
                                   !.url = url, !.model = modelName.value,
                                   !.messages = messages]>>
             /\ http' = NoHttp
             /\ pc' = "lm.await"

LmSystemMessage(systemInstruction) ==
  IF IsString(systemInstruction) /\ Truthy(trim(systemInstruction))
  THEN <<[role |-> "system", content |-> trim(systemInstruction)]>>
  ELSE <<>>

LmStudioService_chat(args) ==
  LmPost("chat", args,
         composeChatMessages(args.messages, args.systemInstruction, args.prompt))

LmStudioService_generateText(args) ==
  LmPost("generateText", args,
         LmSystemMessage(args.systemInstruction)
           \o <<[role |-> "user", content |-> args.prompt]>>)

LmStudioService_generateFromInlineParts(args) ==
  LmPost("generateFromInlineParts", args,
         LmSystemMessage(args.systemInstruction)
           \o <<[role |-> "user", content |-> coercePartsToText(args.parts)]>>)

\* the answers of LM Studio to the POST: the request cannot be delivered, or a
\* status (ok or not) with a body that parses as JSON or does not (body.text
\* is then what res.text() gives)
LmAnswers ==
  [delivered : {TRUE}, ok : {TRUE}, status : {200}, json : {TRUE}, body : LmBodies]
  \cup
  [delivered : {TRUE}, ok : {FALSE}, status : HttpStatuses, json : {TRUE},
   body : LmErrorBodies]
  \cup
  {[delivered |-> TRUE, ok |-> ok, status |-> IF ok THEN 200 ELSE 502,
    json |-> FALSE, body |-> body] :
     ok \in BOOLEAN,
     body \in {[EmptyBody EXCEPT !.text = <<"<html>">>], EmptyBody}}
  \cup
  [delivered : {FALSE}, ok : {FALSE}, status : {0}, json : {FALSE},
   body : {EmptyBody}]

\* errorMessage looking at data.message before data.error
errorMessage_MessageFirst(data, status) ==
  Or(data.error_message,
     Or(data.message,
        Or(data.error,
           <<"LM Studio error (HTTP ", ToString(status), ")">>)))

\* postJson: the message of the Error thrown on a status that is not ok
errorMessage(data, status) ==
  Or(data.error_message,
     Or(data.error,
        Or(data.message,
           <<"LM Studio error (HTTP ", ToString(status), ")">>)))

\* postJson from the answer of fetch on, then the rest of the operation
LmStudioService_postJson ==
  /\ pc = "lm.await"
  /\ \E answer \in LmAnswers :
       LET call == providerCalls[Len(providerCalls)]
           \* data = await res.json(), or {error: raw || 'Unknown ...'}
           data == IF answer.json THEN answer.body
                   ELSE [EmptyBody EXCEPT !.error =
                           Or(answer.body.text,
                              <<"Unknown LM Studio response format">>)]
           message == errorMessage(data, answer.status)
       IN IF ~answer.delivered
          THEN /\ raw' = [NoAnswer EXCEPT !.adapter = "lmstudio"]
               /\ InternalServerError(JsError(
                    <<"Failed to reach LM Studio at ">> \o call.url
                      \o <<". Is the server running and accessible? ">>
                      \o <<"fetch failed">>), Len(adapterOps))
          ELSE /\ raw' = [NoAnswer EXCEPT !.adapter = "lmstudio",
                                          !.ok = answer.ok, !.lm = data,
                                          !.answer = answer]
               /\ IF ~answer.ok
                  THEN InternalServerError(JsError(message), Len(adapterOps))
                  ELSE ReturnResult(call.model, extractChatChoiceText(data))
  /\ Settled
  /\ UNCHANGED <<defaultProvider, lmDefaultModel, apiKey, flights, warned, client, clientMode, adapterOps>>

\* --------------------------------------------------- GeminiService: operations

\* an operation called by a controller runs to its `await this.ensureClient()`
GeminiCall(op, args) ==
  /\ svc' = [args EXCEPT !.adapter = "gemini", !.op = op]
  /\ adapterOps' = <<[adapter |-> "gemini", op |-> op]>>
  /\ providerCalls' = <<>>
  /\ http' = NoHttp
  /\ pc' = "gemini.ensureClient"
  /\ UNCHANGED <<client, clientMode, defaultProvider, lmDefaultModel, apiKey, flights, warned>>

\* ensureClient: `if (this.client) return;`
GeminiService_ensureClient_cached ==
  /\ pc = "gemini.ensureClient"
  /\ client # NoClient
  /\ pc' = "gemini.ready"
  /\ UNCHANGED <<defaultProvider, lmDefaultModel, apiKey, flights, warned, client, clientMode, request,
                 svc, adapterOps, providerCalls, raw, http>>

MissingApiKey == <<"Missing GEMINI_API_KEY (or GOOGLE_API_KEY) in environment">>

\* ensureClient: `if (!apiKey) throw ...`; the exception reaches the catch of
\* the operation
GeminiService_ensureClient_noKey ==
  /\ pc = "gemini.ensureClient"
  /\ client = NoClient
  /\ ~apiKey
  /\ InternalServerError(JsError(MissingApiKey), Len(adapterOps))
  /\ UNCHANGED <<defaultProvider, lmDefaultModel, apiKey, flights, warned, client, clientMode,
                 request, svc, adapterOps, providerCalls, raw>>

\* what the primary attempt leaves when it builds no client: the error caught
\* and given to console.warn, or the warning that the module has no supported
\* constructor. Nothing else keeps it.
PrimaryFailures ==
  {JsError(<<"Cannot find module '@google/genai'">>),
   [kind |-> "string",
    message |-> <<"Loaded @google/genai but did not find a supported constructor; falling back">>]}

\* ensureClient: import('@google/genai') and the construction of its client.
\* The module gives a constructor or factory that builds a client, or it has
\* neither, or the import or the construction throws.
GeminiService_ensureClient_primary ==
  /\ pc = "gemini.ensureClient"
  /\ client = NoClient
  /\ apiKey
  /\ \/ \E caps \in PrimaryCaps :
          /\ client' = [surface |-> "genai", caps |-> caps]
          /\ clientMode' = "genai"
          /\ pc' = "gemini.ready"
          /\ UNCHANGED warned
     \/ \E e \in PrimaryFailures :
          /\ warned' = e
          /\ pc' = "gemini.ensureClient.legacy"
          /\ UNCHANGED <<client, clientMode>>
  /\ UNCHANGED <<defaultProvider, lmDefaultModel, apiKey, flights, request, svc, adapterOps,
                 providerCalls, raw, http>>

LegacyFailures ==
  {<<"Unexpected export shape for @google/generative-ai">>,
   <<"Cannot find module '@google/generative-ai'">>}

\* ensureClient: import('@google/generative-ai'); when it fails too, the
\* exception reaches the catch of the operation
GeminiService_ensureClient_legacy ==
  /\ pc = "gemini.ensureClient.legacy"
  /\ \/ /\ client' = [surface |-> "generative-ai", caps |-> LegacyCaps]
        /\ clientMode' = "generative-ai"
        /\ pc' = "gemini.ready"
        /\ UNCHANGED http
     \/ \E e \in LegacyFailures :
          /\ InternalServerError(JsError(
               <<"Failed to initialize Gemini client from either @google/genai or @google/generative-ai: ">>
                 \o e), Len(adapterOps))
          /\ UNCHANGED <<client, clientMode>>
  /\ warned' = NoThrown
  /\ UNCHANGED <<defaultProvider, lmDefaultModel, apiKey, flights, request, svc, adapterOps,
                 providerCalls, raw>>

GeminiModelName(model) == IF Truthy(model) THEN model ELSE geminiDefaultModel

\* chat, from the return of ensureClient on
GeminiService_chat ==
  /\ pc = "gemini.ready"
  /\ svc.op = "chat"
  /\ LET modelName == GeminiModelName(svc.model)
         prompt == IF IsString(svc.prompt) THEN trim(svc.prompt) ELSE Empty
         instructions0 ==
           IF IsString(svc.systemInstruction) /\ Truthy(trim(svc.systemInstruction))
           THEN <<trim(svc.systemInstruction)>> ELSE <<>>
         mapped == mapMessagesToHistory(svc.messages, instructions0)
         history == mapped.history
         instructions == mapped.instructions
         payload == prepareChatPayload(prompt, history)
         instructionText == combineInstructions(instructions)
         fallbackPrompt == IF Truthy(prompt) THEN prompt
                           ELSE buildFallbackPrompt(history, instructionText)
     IN IF clientMode = "genai" /\ "chats.create" \in client.caps
        THEN IF payload.error
             THEN /\ InternalServerError(JsError(
                       <<"prompt is required (string)">>), Len(adapterOps))
                  /\ UNCHANGED <<svc, adapterOps, providerCalls>>
             ELSE /\ providerCalls' = Append(providerCalls,
                       [NoCall EXCEPT !.adapter = "gemini",
                                      !.kind = "chat.sendMessage",
                                      !.model = modelName,
                                      !.history = payload.historyForSession,
                                      !.systemInstruction = instructionText,
                                      !.input = payload.promptToSend])
                  /\ pc' = "gemini.await"
                  /\ UNCHANGED <<svc, adapterOps, http>>
        ELSE \* return this.generateText(fallbackPrompt, {...})
             /\ svc' = [svc EXCEPT !.op = "generateText",
                                   !.prompt = fallbackPrompt,
                                   !.systemInstruction = instructionText]
             /\ adapterOps' =
                  Append(adapterOps, [adapter |-> "gemini", op |-> "generateText"])
             /\ pc' = "gemini.ensureClient"
             /\ UNCHANGED <<providerCalls, http>>
  /\ UNCHANGED <<defaultProvider, lmDefaultModel, apiKey, flights, warned, client, clientMode, request, raw>>

\* generateText and generateFromInlineParts, from the return of ensureClient
\* on: `input` is what the provider is given as the content
GeminiGenerate(input, parts) ==
  LET modelName == GeminiModelName(svc.model)
  IN IF clientMode = "genai" /\ "responses.generate" \in client.caps
     THEN /\ providerCalls' = Append(providerCalls,
               [NoCall EXCEPT !.adapter = "gemini", !.kind = "responses.generate",
                              !.model = modelName,
                              !.systemInstruction =
                                 IF Truthy(svc.systemInstruction)
                                 THEN svc.systemInstruction ELSE Undefined,
                              !.input = input, !.parts = parts])
          /\ pc' = "gemini.await"
          /\ UNCHANGED http
     ELSE IF "getGenerativeModel" \in client.caps
     THEN /\ providerCalls' = Append(providerCalls,
               [NoCall EXCEPT !.adapter = "gemini", !.kind = "generateContent",
                              !.model = modelName,
                              !.input = input, !.parts = parts])
          /\ pc' = "gemini.await"
          /\ UNCHANGED http
     ELSE /\ InternalServerError(JsError(
               <<"No compatible Gemini client available">>), Len(adapterOps))
          /\ UNCHANGED providerCalls

GeminiService_generateText ==
  /\ pc = "gemini.ready"
  /\ svc.op = "generateText"
  /\ GeminiGenerate(svc.prompt, <<>>)
  /\ UNCHANGED <<defaultProvider, lmDefaultModel, apiKey, flights, warned, client, clientMode, request,
                 svc, adapterOps, raw>>

GeminiService_generateFromInlineParts ==
  /\ pc = "gemini.ready"
  /\ svc.op = "generateFromInlineParts"
  /\ GeminiGenerate(Undefined, svc.parts)
  /\ UNCHANGED <<defaultProvider, lmDefaultModel, apiKey, flights, warned, client, clientMode, request,
                 svc, adapterOps, raw>>

\* GeminiService_settle issuing the operation again when the call rejects
GeminiService_settle_Retry ==
  /\ pc = "gemini.await"
  /\ \E e \in ProviderErrors :
       /\ raw' = [NoAnswer EXCEPT !.adapter = "gemini"]
       /\ pc' = "gemini.ready"
  /\ UNCHANGED <<defaultProvider, lmDefaultModel, apiKey, flights, warned, client, clientMode, request,
                 svc, adapterOps, providerCalls, http>>

\* the provider call settles: it rejects, or it resolves with a raw result
\* from which the operation extracts the text
GeminiService_settle ==
  /\ pc = "gemini.await"
  /\ LET call == providerCalls[Len(providerCalls)]
     IN \/ \E e \in ProviderErrors :
             /\ raw' = [NoAnswer EXCEPT !.adapter = "gemini"]
             /\ InternalServerError(e, Len(adapterOps))
        \/ \E result \in GeminiRaws :
             LET \* generateContent: extractText(result?.response ?? result)
                 arg == IF call.kind = "generateContent" /\ result.response.present
                        THEN AsResult(result.response) ELSE result
                 text == extractText(arg)
             IN /\ raw' = [NoAnswer EXCEPT !.adapter = "gemini", !.ok = TRUE,
                                           !.gemini = result]
                /\ IF text.threw
                   THEN InternalServerError(JsError(
                          <<"result.text is not a function">>), Len(adapterOps))
                   ELSE ReturnResult(call.model, text.value)
  /\ Settled
  /\ UNCHANGED <<defaultProvider, lmDefaultModel, apiKey, flights, warned, client, clientMode, adapterOps>>

\* --------------------------------------------------------------- controllers

ServiceArgs(prompt, body, parts) ==
  [NoSvc EXCEPT !.prompt = prompt, !.model = body.model,
                !.systemInstruction = body.systemInstruction,
                !.messages = body.messages, !.parts = parts]

PromptRequired == <<"prompt is required (string)">>

\* POST api/chat
GeminiController_chatWithGemini ==
  /\ pc = "idle"
  /\ \E body \in ChatBodies :
       /\ Fresh([route |-> "api/chat", body |-> body, file |-> NoFile])
       /\ LET prompt == effectivePrompt(body.prompt, body.messages)
              args == ServiceArgs(prompt, body, <<>>)
          IN IF ~Truthy(prompt)
             THEN /\ BadRequest(PromptRequired)
                  /\ svc' = NoSvc /\ adapterOps' = <<>> /\ providerCalls' = <<>>
                  /\ UNCHANGED <<client, clientMode, defaultProvider, lmDefaultModel, apiKey, flights, warned>>
             ELSE IF shouldUseLmStudio(body.provider, defaultProvider)
             THEN LmStudioService_chat(args)
             ELSE GeminiCall("chat", args)

\* POST generate-text
GeminiController_generateText ==
  /\ pc = "idle"
  /\ \E body \in TextBodies :
       /\ Fresh([route |-> "generate-text", body |-> body, file |-> NoFile])
       /\ LET args == ServiceArgs(body.prompt, body, <<>>)
          IN IF ~Truthy(body.prompt)
             THEN /\ ReturnError(PromptRequired)
                  /\ svc' = NoSvc /\ adapterOps' = <<>> /\ providerCalls' = <<>>
                  /\ UNCHANGED <<client, clientMode, defaultProvider, lmDefaultModel, apiKey, flights, warned>>
             ELSE IF shouldUseLmStudio(body.provider, defaultProvider)
             THEN LmStudioService_generateText(args)
             ELSE GeminiCall("generateText", args)

FileRequired(kind) ==
  <<kind, " file is required (field: ", kind, ")">>

UploadParts(body, file) ==
  (IF Truthy(body.prompt) THEN <<TextPart(body.prompt)>> ELSE <<>>)
    \o <<buildInlineDataPart(file.bytes, file.mimetype)>>

\* POST generate-from-image, generate-from-document, generate-from-audio
GeminiController_generateFromUpload ==
  /\ pc = "idle"
  /\ \E kind \in UploadKinds, body \in PromptBodies, file \in Files :
       /\ Fresh([route |-> "generate-from-" \o kind, body |-> body, file |-> file])
       /\ LET args == ServiceArgs(body.prompt, body, UploadParts(body, file))
          IN IF ~file.present
             THEN /\ ReturnError(FileRequired(kind))
                  /\ svc' = NoSvc /\ adapterOps' = <<>> /\ providerCalls' = <<>>
                  /\ UNCHANGED <<client, clientMode, defaultProvider, lmDefaultModel, apiKey, flights, warned>>
             ELSE IF shouldUseLmStudio(body.provider, defaultProvider)
             THEN LmStudioService_generateFromInlineParts(args)
             ELSE GeminiCall("generateFromInlineParts", args)

InvalidProvider == <<"Invalid provider for this route: expected \"lmstudio\".">>

Rejected(message) ==
  /\ BadRequest(message)
  /\ svc' = NoSvc /\ adapterOps' = <<>> /\ providerCalls' = <<>>
  /\ UNCHANGED <<client, clientMode, defaultProvider, lmDefaultModel, apiKey, flights, warned>>

\* POST lm/api/chat
LmStudioController_chatWithLmStudio ==
  /\ pc = "idle"
  /\ \E body \in ChatBodies :
       /\ Fresh([route |-> "lm/api/chat", body |-> body, file |-> NoFile])
       /\ LET prompt == effectivePrompt(body.prompt, body.messages)
          IN IF ensureProviderIsLmStudio(body.provider)
             THEN Rejected(InvalidProvider)
             ELSE IF ~Truthy(prompt)
             THEN Rejected(PromptRequired)
             ELSE LmStudioService_chat(ServiceArgs(prompt, body, <<>>))

\* POST lm/generate-text
LmStudioController_generateText ==
  /\ pc = "idle"
  /\ \E body \in TextBodies :
       /\ Fresh([route |-> "lm/generate-text", body |-> body, file |-> NoFile])
       /\ IF ensureProviderIsLmStudio(body.provider)
          THEN Rejected(InvalidProvider)
          ELSE IF ~Truthy(body.prompt)
          THEN /\ ReturnError(PromptRequired)
               /\ svc' = NoSvc /\ adapterOps' = <<>> /\ providerCalls' = <<>>
               /\ UNCHANGED <<client, clientMode, defaultProvider, lmDefaultModel, apiKey, flights, warned>>
          ELSE LmStudioService_generateText(ServiceArgs(body.prompt, body, <<>>))

\* POST lm/generate-from-image, lm/generate-from-document, lm/generate-from-audio
LmStudioController_generateFromUpload ==
  /\ pc = "idle"
  /\ \E kind \in UploadKinds, body \in PromptBodies, file \in Files :
       /\ Fresh([route |-> "lm/generate-from-" \o kind, body |-> body, file |-> file])
       /\ IF ensureProviderIsLmStudio(body.provider)
          THEN Rejected(InvalidProvider)
          ELSE IF ~file.present
          THEN /\ ReturnError(FileRequired(kind))
               /\ svc' = NoSvc /\ adapterOps' = <<>> /\ providerCalls' = <<>>
               /\ UNCHANGED <<client, clientMode, defaultProvider, lmDefaultModel, apiKey, flights, warned>>
          ELSE LmStudioService_generateFromInlineParts(
                 ServiceArgs(body.prompt, body, UploadParts(body, file)))

\* the response has been written: nothing of the request is retained
Complete ==
  /\ pc = "done"
  /\ pc' = "idle"
  /\ request' = NoRequest
  /\ svc' = NoSvc
  /\ adapterOps' = <<>>
  /\ providerCalls' = <<>>
  /\ raw' = NoAnswer
  /\ http' = NoHttp
  /\ UNCHANGED <<defaultProvider, lmDefaultModel, apiKey, flights, warned, client, clientMode>>

\* ------------------------------------------------------------ specification

Next ==
  \/ GeminiController_chatWithGemini
  \/ GeminiController_generateText
  \/ GeminiController_generateFromUpload
  \/ LmStudioController_chatWithLmStudio
  \/ LmStudioController_generateText
  \/ LmStudioController_generateFromUpload
  \/ GeminiService_ensureClient_cached
  \/ GeminiService_ensureClient_noKey
  \/ GeminiService_ensureClient_primary
  \/ GeminiService_ensureClient_legacy
  \/ GeminiService_chat
  \/ GeminiService_generateText
  \/ GeminiService_generateFromInlineParts
  \/ GeminiService_settle
  \/ LmStudioService_postJson
  \/ Complete

Spec == Init /\ [][Next]_vars

\* GeminiService.chat called with a ChatRequestDto as it stands, not through a
\* controller: the reconciliation of the service on every request
GeminiService_chat_called ==
  /\ pc = "idle"
  /\ \E body \in ChatBodies :
       /\ Fresh([route |-> "GeminiService.chat", body |-> body, file |-> NoFile])
       /\ GeminiCall("chat", ServiceArgs(body.prompt, body, <<>>))

NextService ==
  \/ GeminiService_chat_called
  \/ GeminiService_ensureClient_cached
  \/ GeminiService_ensureClient_noKey
  \/ GeminiService_ensureClient_primary
  \/ GeminiService_ensureClient_legacy
  \/ GeminiService_chat
  \/ GeminiService_generateText
  \/ GeminiService_settle
  \/ Complete

SpecService == Init /\ [][NextService]_vars

\* ------------------------------------- ensureClient, operations side by side

\* Each operation of GeminiService awaits ensureClient, which awaits the
\* import of an SDK: between two awaits of one operation the others run.
\* flights.at[r] is where operation r stands.
Moved(r, to) == [flights EXCEPT !.at[r] = to]

RaceFrame ==
  UNCHANGED <<defaultProvider, lmDefaultModel, apiKey, warned, pc, request, svc,
              adapterOps, providerCalls, raw, http>>

\* an operation is called and runs ensureClient up to its first await:
\* `if (this.client) return;`, the API key, `await import('@google/genai')`
GeminiService_ensureClient_enter(r) ==
  /\ flights.at[r] = "idle"
  /\ flights' = Moved(r, IF client # NoClient THEN "ready"
                         ELSE IF ~apiKey THEN "failed"
                         ELSE "import.primary")
  /\ UNCHANGED <<client, clientMode>>
  /\ RaceFrame

\* the primary branch assigning the client and leaving the mode for later
GeminiService_ensureClient_resumePrimary_ClientOnly(r) ==
  /\ flights.at[r] = "import.primary"
  /\ \E caps \in PrimaryCaps :
       /\ client' = [surface |-> "genai", caps |-> caps]
       /\ flights' = [flights EXCEPT !.at[r] = "ready",
                                     !.constructed = @ + 1, !.owner = r]
  /\ UNCHANGED clientMode
  /\ RaceFrame

\* the import of @google/genai has settled: `this.client = new maybeCtor(...);
\* this.clientMode = 'genai'; return;` with no await in between, or on to
\* `await import('@google/generative-ai')`
GeminiService_ensureClient_resumePrimary(r) ==
  /\ flights.at[r] = "import.primary"
  /\ \/ \E caps \in PrimaryCaps :
          /\ client' = [surface |-> "genai", caps |-> caps]
          /\ clientMode' = "genai"
          /\ flights' = [flights EXCEPT !.at[r] = "ready",
                                        !.constructed = @ + 1, !.owner = r]
     \/ /\ flights' = Moved(r, "import.legacy")
        /\ UNCHANGED <<client, clientMode>>
  /\ RaceFrame

\* the import of @google/generative-ai has settled: the client and the mode
\* are assigned together, or ensureClient throws
GeminiService_ensureClient_resumeLegacy(r) ==
  /\ flights.at[r] = "import.legacy"
  /\ \/ /\ client' = [surface |-> "generative-ai", caps |-> LegacyCaps]
        /\ clientMode' = "generative-ai"
        /\ flights' = [flights EXCEPT !.at[r] = "ready",
                                      !.constructed = @ + 1, !.owner = r]
     \/ /\ flights' = Moved(r, "failed")
        /\ UNCHANGED <<client, clientMode>>
  /\ RaceFrame

\* the operation goes on to its provider call and returns, or has thrown
GeminiService_operation_returns(r) ==
  /\ flights.at[r] \in {"ready", "failed"}
  /\ flights' = Moved(r, "idle")
  /\ UNCHANGED <<client, clientMode>>
  /\ RaceFrame

NextRace ==
  \E r \in 1..NumRequests :
    \/ GeminiService_ensureClient_enter(r)
    \/ GeminiService_ensureClient_resumePrimary(r)
    \/ GeminiService_ensureClient_resumeLegacy(r)
    \/ GeminiService_operation_returns(r)

SpecRace == Init /\ [][NextRace]_vars

\* ------------------------------------------------ LmStudioService.chat alone

\* LmStudioService.chat called with a ChatRequestDto as it stands, not through
\* a controller: the prompt may be absent or blank
LmStudioService_chat_called ==
  /\ pc = "idle"
  /\ \E body \in ChatBodies :
       /\ Fresh([route |-> "LmStudioService.chat", body |-> body, file |-> NoFile])
       /\ LmStudioService_chat(ServiceArgs(body.prompt, body, <<>>))

NextLmService ==
  \/ LmStudioService_chat_called
  \/ LmStudioService_postJson
  \/ Complete

SpecLmService == Init /\ [][NextLmService]_vars

\* ------------------------------------------------------------------- claims

\* the body of the request is still held (no provider has answered yet)
Held == request.route # "none" /\ raw.adapter = "none"

Last(seq) == seq[Len(seq)]
Front(seq) == SubSeq(seq, 1, Len(seq) - 1)

ChatRoutes == {"api/chat", "lm/api/chat"}
LmRoutes ==
  {"lm/api/chat", "lm/generate-text"} \cup {"lm/generate-from-" \o k : k \in UploadKinds}
MainRoutes ==
  {"api/chat", "generate-text"} \cup {"generate-from-" \o k : k \in UploadKinds}

Blank(s) == s = Undefined \/ \A i \in DOMAIN s : s[i] \in Whitespace

ExplicitPrompt(body) == ~Blank(body.prompt)

\* the turns a message list stands for: its non-blank, non-system messages in
\* order, assistant as model, every other role as user
RetainedTurns(messages) ==
  LET kept == SelectSeq(messages,
                        LAMBDA m : ~Blank(m.content) /\ m.role # "system")
  IN [i \in DOMAIN kept |->
        [role |-> IF kept[i].role = "assistant" THEN "model" ELSE "user",
         text |-> trim(kept[i].content)]]

\* the instruction of a request: the supplied systemInstruction, then the
\* system messages in order, each trimmed, blank ones left out, with a blank
\* line between two of them; Undefined when there is none
RECURSIVE BlankLineJoined(_)
BlankLineJoined(list) ==
  IF Len(list) = 1 THEN list[1]
  ELSE list[1] \o <<"\n\n">> \o BlankLineJoined(Tail(list))

ExpectedInstruction(body) ==
  LET sys == SelectSeq(body.messages,
                       LAMBDA m : m.role = "system" /\ ~Blank(m.content))
      all == (IF Blank(body.systemInstruction) THEN <<>>
              ELSE <<trim(body.systemInstruction)>>)
               \o [i \in DOMAIN sys |-> trim(sys[i].content)]
  IN IF all = <<>> THEN Undefined ELSE BlankLineJoined(all)

LastCall == Last(providerCalls)
NativeChatSent ==
  /\ Held
  /\ providerCalls # <<>>
  /\ LastCall.kind = "chat.sendMessage"

\* C1: a chat request with no non-blank prompt and no user-role message with
\* non-blank content is rejected with 'prompt is required' (on the lm route a
\* bad provider selector is reported first) and no adapter operation is
\* invoked for it.
NoPromptNoUserText(body) ==
  /\ ~ExplicitPrompt(body)
  /\ \A i \in DOMAIN body.messages :
       ~(body.messages[i].role = "user" /\ ~Blank(body.messages[i].content))

C1_NoPromptRejected ==
  (request.route \in ChatRoutes /\ Held /\ NoPromptNoUserText(request.body))
    => /\ pc = "done"
       /\ http.status = 400
       /\ http.kind = "exception"
       /\ \/ http.message = PromptRequired
          \/ request.route = "lm/api/chat" /\ http.message = InvalidProvider
       /\ request.route = "api/chat" => http.message = PromptRequired
       /\ adapterOps = <<>>
       /\ providerCalls = <<>>

C1_Witness ==
  /\ request.route = "api/chat"
  /\ Held
  /\ NoPromptNoUserText(request.body)
  /\ Len(request.body.messages) = 2
  /\ request.body.messages[1] = [role |-> "assistant", content |-> <<"c">>]
  /\ request.body.messages[2].role = "user"
  /\ http.status = 400

\* C2: reconciliation without an explicit prompt. When the last retained turn
\* is a user turn, the prompt sent is its text and the history sent is the
\* turns before it, in order; otherwise the call fails with 'prompt is
\* required'.
C2_PromptFromLastUserTurn ==
  (/\ request.route = "GeminiService.chat"
   /\ Held
   /\ ~ExplicitPrompt(request.body)
   /\ adapterOps = <<[adapter |-> "gemini", op |-> "chat"]>>
   /\ "chats.create" \in client.caps
   /\ pc \in {"gemini.await", "done"})
    => LET turns == RetainedTurns(request.body.messages)
       IN IF turns # <<>> /\ Last(turns).role = "user"
          THEN /\ pc = "gemini.await"
               /\ Len(providerCalls) = 1
               /\ LastCall.kind = "chat.sendMessage"
               /\ LastCall.input = Last(turns).text
               /\ LastCall.history = Front(turns)
          ELSE /\ pc = "done"
               /\ providerCalls = <<>>
               /\ http.status = 500
               /\ http.message = PromptRequired

C2_Witness ==
  /\ request.route = "GeminiService.chat"
  /\ request.body.prompt = Undefined
  /\ request.body.messages =
       <<[role |-> "assistant", content |-> <<"c">>],
         [role |-> "user", content |-> <<" ", "b">>]>>
  /\ NativeChatSent
  /\ LastCall.input = <<"b">>
  /\ LastCall.history = <<[role |-> "model", text |-> <<"c">>]>>

\* the user and assistant turns a provider call carries
TurnsSent(call) ==
  IF call.adapter = "lmstudio"
  THEN Len(SelectSeq(call.messages, LAMBDA m : m.role # "system"))
  ELSE IF call.kind = "chat.sendMessage" THEN Len(call.history) + 1
  ELSE 1

\* C3: a chat request without an explicit prompt, handled through the
\* controller, whose last retained turn is a user turn: that turn, from
\* which the prompt is derived, is sent to the provider once, so the call
\* carries no more turns than the request holds.
C3_DerivedTurnSentOnce ==
  (/\ request.route \in ChatRoutes
   /\ Held
   /\ ~ExplicitPrompt(request.body)
   /\ RetainedTurns(request.body.messages) # <<>>
   /\ Last(RetainedTurns(request.body.messages)).role = "user"
   /\ providerCalls # <<>>)
    => TurnsSent(LastCall) <= Len(RetainedTurns(request.body.messages))

\* C4: with an explicit non-blank prompt the prompt sent is that prompt,
\* trimmed, and the history sent is every retained turn, a trailing user
\* turn included.
C4_ExplicitPromptKeepsHistory ==
  (/\ request.route = "GeminiService.chat"
   /\ ExplicitPrompt(request.body)
   /\ adapterOps = <<[adapter |-> "gemini", op |-> "chat"]>>
   /\ "chats.create" \in client.caps
   /\ Held
   /\ pc \in {"gemini.await", "done"})
    => /\ pc = "gemini.await"
       /\ Len(providerCalls) = 1
       /\ LastCall.kind = "chat.sendMessage"
       /\ LastCall.input = trim(request.body.prompt)
       /\ LastCall.history = RetainedTurns(request.body.messages)

C4_Witness ==
  /\ request.route = "GeminiService.chat"
  /\ request.body.prompt = <<"p", " ">>
  /\ request.body.messages =
       <<[role |-> "assistant", content |-> <<"c">>],
         [role |-> "user", content |-> <<"a">>]>>
  /\ NativeChatSent
  /\ LastCall.input = <<"p">>
  /\ Len(LastCall.history) = 2
  /\ LastCall.history[2] = [role |-> "user", text |-> <<"a">>]

\* C5: a chat request whose message list ends with a blank entry resolves the
\* prompt, or is rejected, as the same request without that entry.
C5_TrailingBlankIgnored ==
  (/\ request.route \in ChatRoutes
   /\ Held
   /\ request.route = "lm/api/chat" => http.message # InvalidProvider
   /\ request.body.messages # <<>>
   /\ Blank(Last(request.body.messages).content))
    => LET without == effectivePrompt(request.body.prompt,
                                      Front(request.body.messages))
       IN IF Truthy(without)
          THEN adapterOps # <<>> /\ svc.prompt = without
          ELSE adapterOps = <<>> /\ http.status = 400

\* C6: system messages are not part of the history; the instruction sent is
\* the supplied systemInstruction followed by the non-blank system messages in
\* order, trimmed and joined by a blank line, and absent when there is none;
\* the history is the other non-blank messages in order, assistant as model
\* and every other role as user.
C6_SystemMessagesFolded ==
  /\ (request.route = "GeminiService.chat" /\ NativeChatSent)
       => /\ LastCall.systemInstruction = ExpectedInstruction(request.body)
          /\ LET turns == RetainedTurns(request.body.messages)
             IN \/ LastCall.history = turns
                \/ turns # <<>> /\ LastCall.history = Front(turns)
          /\ \A i \in DOMAIN LastCall.history :
               LastCall.history[i].role \in {"user", "model"}
  /\ (/\ request.route = "GeminiService.chat"
      /\ Held
      /\ Len(adapterOps) = 2)
       => svc.systemInstruction = ExpectedInstruction(request.body)

C6_Witness ==
  /\ request.route = "GeminiService.chat"
  /\ NativeChatSent
  /\ request.body.systemInstruction = <<"e", " ">>
  /\ request.body.messages =
       <<[role |-> "system", content |-> <<"z", " ">>],
         [role |-> "system", content |-> <<"s">>]>>
  /\ LastCall.systemInstruction = <<"e", "\n\n", "z", "\n\n", "s">>
  /\ LastCall.history = <<>>

\* 'lmstudio' in any letter case
IsLmStudioSelector(s) == s \in {<<"lmstudio">>, <<"LMStudio">>, <<"LMSTUDIO">>}

Dispatched == adapterOps # <<>>
Adapter == adapterOps[1].adapter

\* C7: on the main endpoints a selector 'lmstudio' in any letter case goes to
\* the LM Studio adapter whatever DEFAULT_PROVIDER is; without a selector the
\* request goes to LM Studio exactly when DEFAULT_PROVIDER is 'lmstudio' in
\* any letter case, and to Gemini when no default is configured.
C7_Routing ==
  (request.route \in MainRoutes /\ Held /\ Dispatched)
    => /\ IsLmStudioSelector(request.body.provider) => Adapter = "lmstudio"
       /\ request.body.provider = Undefined
            => (Adapter = "lmstudio" <=> IsLmStudioSelector(defaultProvider))
       /\ (request.body.provider = Undefined /\ defaultProvider = Undefined)
            => Adapter = "gemini"

C7_Witness ==
  /\ request.route = "generate-text"
  /\ Held
  /\ request.body.provider = <<"LMStudio">>
  /\ defaultProvider = <<"gemini">>
  /\ Dispatched
  /\ Adapter = "lmstudio"

\* a non-empty selector that names no provider
UnknownSelector(s) ==
  /\ Truthy(s)
  /\ ~IsLmStudioSelector(s)
  /\ s \notin {<<"gemini">>, <<"Gemini">>, <<"GEMINI">>}

Rejected400 == pc = "done" /\ http.status = 400 /\ http.kind = "exception"

\* C8 as claimed: on every route a request with a non-empty selector that
\* names no provider fails with a validation error and no adapter is invoked.
C8_UnknownSelectorRejected ==
  (request.route \in MainRoutes \cup LmRoutes /\ Held
     /\ UnknownSelector(request.body.provider))
    => Rejected400 /\ ~Dispatched

\* C8 as amended: on the lm routes a non-empty selector other than 'lmstudio'
\* (in any letter case) fails with a validation error and no adapter is
\* invoked; on the main routes no selector is rejected, and a request with a
\* non-empty selector other than 'lmstudio' that is served is served by the
\* Gemini adapter.
C8_SelectorPerRoute ==
  /\ (/\ request.route \in LmRoutes
      /\ Held
      /\ Truthy(request.body.provider)
      /\ ~IsLmStudioSelector(request.body.provider))
       => /\ Rejected400
          /\ http.message = InvalidProvider
          /\ ~Dispatched
          /\ providerCalls = <<>>
  /\ (/\ request.route \in MainRoutes
      /\ Held
      /\ Truthy(request.body.provider)
      /\ ~IsLmStudioSelector(request.body.provider))
       => /\ http.message # InvalidProvider
          /\ Dispatched => Adapter = "gemini"
          /\ ~Dispatched => (http.message \in
                               {PromptRequired} \cup {FileRequired(k) : k \in UploadKinds})

C8_Witness ==
  /\ request.route = "lm/generate-text"
  /\ Held
  /\ request.body.provider = <<"OpenAI">>
  /\ Truthy(request.body.prompt)
  /\ Rejected400
  /\ ~Dispatched

\* C9: the operations invoked for a request are all of one adapter, the
\* request makes at most one provider call, of that adapter, and once the
\* call has settled, failed or not, the request is over.
C9_OneAdapterOneCall ==
  /\ Len(providerCalls) <= 1
  /\ \A i \in DOMAIN adapterOps : adapterOps[i].adapter = Adapter
  /\ \A i \in DOMAIN providerCalls : providerCalls[i].adapter = Adapter
  /\ pc \in {"gemini.await", "lm.await"} => Len(providerCalls) = 1
  /\ raw.adapter # "none" => pc = "done" /\ Len(providerCalls) = 1

C9_Witness ==
  /\ pc = "done"
  /\ raw.adapter = "gemini"
  /\ ~raw.ok
  /\ http.status = 500
  /\ Len(providerCalls) = 1
  /\ Len(adapterOps) = 2

\* a raw result with none of the shapes the extraction knows
UnknownShape ==
  \/ /\ raw.adapter = "gemini"
     /\ raw.gemini.output_text = Undefined
     /\ raw.gemini.text.kind # "function"
     /\ raw.gemini.candidates = Undefined
     /\ \/ ~raw.gemini.response.present
        \/ /\ raw.gemini.response.text.kind # "function"
           /\ raw.gemini.response.candidates = Undefined
           /\ raw.gemini.response.output_text = Undefined
  \/ /\ raw.adapter = "lmstudio"
     /\ raw.lm.choices_content.kind = "undefined"
     /\ raw.lm.choices_text = Undefined
     /\ raw.lm.output_text = Undefined
     /\ raw.lm.text = Undefined

\* C10: a provider call that succeeds with a raw result of no known shape
\* gives the result {model, text} with text undefined, and no error.
C10_UnknownShapeUndefinedText ==
  (pc = "done" /\ raw.ok /\ UnknownShape)
    => /\ http.status = 200
       /\ http.kind = "result"
       /\ http.text = Undefined

\* the first non-empty string of a sequence of candidates, or Undefined
RECURSIVE FirstNonEmpty(_)
FirstNonEmpty(candidates) ==
  IF candidates = <<>> THEN Undefined
  ELSE IF Truthy(Head(candidates)) THEN Head(candidates)
  ELSE FirstNonEmpty(Tail(candidates))

\* what a text property yields: the value it returns when it is callable
Yield(t) == IF t.kind = "function" THEN t.value ELSE Undefined

\* the candidate locations of the raw answer, in the order they are probed
Candidates ==
  IF raw.adapter = "lmstudio"
  THEN LET content == raw.lm.choices_content
       IN <<IF content.kind = "string" THEN content.value ELSE Undefined,
            IF content.kind = "parts"
            THEN join(SelectSeq(content.value, LAMBDA t : Truthy(trim(t))),
                      <<"\n">>)
            ELSE Undefined,
            raw.lm.output_text, raw.lm.text, raw.lm.choices_text>>
  ELSE LET r == IF providerCalls[1].kind = "generateContent"
                     /\ raw.gemini.response.present
                THEN AsResult(raw.gemini.response) ELSE raw.gemini
       IN <<r.output_text,
            IF r.response.present THEN Yield(r.response.text) ELSE Undefined,
            Yield(r.text), r.candidates,
            IF r.response.present THEN r.response.candidates ELSE Undefined>>

\* C11: when the provider call succeeded and some candidate location holds a
\* non-empty string, the text returned is the first non-empty string in
\* probing order: an empty higher-priority candidate does not win.
C11_FirstNonEmptyWins ==
  (/\ pc = "done"
   /\ raw.adapter # "none"
   /\ raw.ok
   /\ FirstNonEmpty(Candidates) # Undefined)
    => /\ http.kind = "result"
       /\ http.text = FirstNonEmpty(Candidates)

TextRoutes == {"generate-text", "lm/generate-text"}
UploadRoutes ==
  {r \o "generate-from-" \o k : r \in {"", "lm/"}, k \in UploadKinds}

\* the request in flight is one the boundary has to refuse: no resolvable
\* prompt, an unsupported provider selector, or no uploaded file
InvalidInput ==
  \/ /\ request.route \in ChatRoutes
     /\ NoPromptNoUserText(request.body)
  \/ /\ request.route \in TextRoutes
     /\ request.body.prompt \in {Undefined, Empty}
  \/ /\ request.route \in UploadRoutes
     /\ ~request.file.present
  \/ /\ request.route \in LmRoutes
     /\ Truthy(request.body.provider)
     /\ ~IsLmStudioSelector(request.body.provider)

\* C12: a request that fails validation is answered with a client error
\* (status 4xx) carrying a message, and no provider call is made for it.
C12_ValidationIsClientError ==
  (Held /\ InvalidInput)
    => /\ pc = "done"
       /\ http.status \in 400..499
       /\ http.kind = "exception"
       /\ Truthy(http.message)
       /\ providerCalls = <<>>

LmStudioServes == Dispatched /\ Adapter = "lmstudio"

\* the model an LM Studio operation is to use for the request in flight
ExpectedLmModel ==
  IF Blank(request.body.model) THEN lmDefaultModel
  ELSE trim(request.body.model)

\* C13: an LM Studio operation posts with the trimmed request model when that
\* is non-blank and with the configured default otherwise; with neither it
\* fails with the 'no model configured' message as a server error and nothing
\* is posted.
C13_LmModelResolution ==
  (Held /\ LmStudioServes)
    => IF ExpectedLmModel = Undefined
       THEN /\ pc = "done"
            /\ http.status = 500
            /\ http.kind = "exception"
            /\ http.message = NoModelMessage
            /\ providerCalls = <<>>
       ELSE /\ pc = "lm.await"
            /\ Len(providerCalls) = 1
            /\ LastCall.kind = "POST"
            /\ LastCall.model = ExpectedLmModel

C13_Witness ==
  /\ Held
  /\ LmStudioServes
  /\ adapterOps[1].op = "chat"
  /\ request.body.model = <<" ">>
  /\ lmDefaultModel = Undefined
  /\ http.status = 500
  /\ http.message = NoModelMessage
  /\ providerCalls = <<>>

\* LM Studio answered the request in flight with a status that is not ok
NonSuccess ==
  /\ pc = "done"
  /\ raw.adapter = "lmstudio"
  /\ raw.answer.delivered
  /\ ~raw.answer.ok

\* the fields of the body LM Studio answered with; a body that is not JSON
\* has none
BodyFields == IF raw.answer.json THEN raw.answer.body ELSE EmptyBody

GenericHttpMessage(status) ==
  <<"LM Studio error (HTTP ", ToString(status), ")">>

\* body.error.message, else body.error, else body.message, else the generic
\* message with the status
BestBodyMessage ==
  LET m == FirstNonEmpty(<<BodyFields.error_message, BodyFields.error,
                           BodyFields.message>>)
  IN IF m # Undefined THEN m ELSE GenericHttpMessage(raw.answer.status)

\* C14 as claimed: on a status that is not ok the operation fails with the
\* first available of body.error.message, body.error and body.message, and
\* otherwise with the generic message holding 'HTTP <status>'.
C14_NonSuccessMessage ==
  NonSuccess
    => /\ http.status = 500
       /\ http.kind = "exception"
       /\ http.message = BestBodyMessage

\* C14 as amended: on a status that is not ok the operation fails; when the
\* body is JSON the message is the first available of body.error.message,
\* body.error and body.message, and otherwise the generic message holding
\* 'HTTP <status>'; when the body is not JSON the message is the text of the
\* body if that can be read and is not empty, and 'Unknown LM Studio response
\* format' otherwise.
C14_NonSuccessMessageByBody ==
  NonSuccess
    => /\ http.status = 500
       /\ http.kind = "exception"
       /\ http.message =
            IF raw.answer.json THEN BestBodyMessage
            ELSE IF Truthy(raw.answer.body.text) THEN raw.answer.body.text
            ELSE <<"Unknown LM Studio response format">>

C14_Witness ==
  /\ NonSuccess
  /\ raw.answer.status = 404
  /\ raw.answer.body.error = <<"bad request">>
  /\ raw.answer.body.message = <<"other">>
  /\ http.status = 500
  /\ http.message = <<"bad request">>

\* the POST of the request in flight could not be delivered
Undelivered ==
  /\ pc = "done"
  /\ raw.adapter = "lmstudio"
  /\ ~raw.answer.delivered

EndpointUrl == baseUrl \o <<"/", "v1/chat/completions">>

Contains(s, sub) ==
  \E i \in 0..(Len(s) - Len(sub)) : SubSeq(s, i + 1, i + Len(sub)) = sub

\* C15: when the POST cannot be delivered the operation fails at once, after
\* that one attempt, with a server error whose message holds the full
\* endpoint URL and is the message of the Error postJson threw, unchanged.
C15_UnreachableNamesUrl ==
  Undelivered
    => /\ http.status = 500
       /\ http.kind = "exception"
       /\ Len(providerCalls) = 1
       /\ providerCalls[1].url = EndpointUrl
       /\ Contains(http.message, EndpointUrl)
       /\ http.cause.kind = "error"
       /\ http.message = http.cause.message

C15_Witness ==
  /\ Undelivered
  /\ request.route = "lm/generate-text"
  /\ http.status = 500
  /\ Contains(http.message,
              <<"http://localhost:1234", "/", "v1/chat/completions">>)

\* the text of a thrown value: the value itself if it is a string, else its
\* message field, else its JSON serialization, else 'Unknown error'
TextOf(err) ==
  CASE err.kind = "string" -> err.message
    [] err.kind # "string" /\ Truthy(err.message) -> err.message
    [] err.kind = "object" /\ ~Truthy(err.message) -> <<"JSON.stringify(err)">>
    [] OTHER -> <<"Unknown error">>

\* C17: a value thrown inside an adapter operation reaches the boundary as a
\* server error whose message is the text of that value, whether one
\* operation caught it or an operation called by another did first.
C17_FailureAsOneMessage ==
  (pc = "done" /\ http.cause # NoThrown)
    => /\ http.status = 500
       /\ http.kind = "exception"
       /\ http.message = TextOf(http.cause)

C17_Witness ==
  /\ pc = "done"
  /\ Len(adapterOps) = 2
  /\ adapterOps[1].op = "chat"
  /\ adapterOps[2].op = "generateText"
  /\ http.cause = [kind |-> "error", message |-> <<"quota exceeded">>]
  /\ http.status = 500
  /\ http.message = <<"quota exceeded">>

\* the placeholder of a binary part, with the number of bytes of the upload
ReferenceAttachment(file) ==
  <<"[Attachment: ">> \o file.mimetype
    \o <<", ", ToString(file.bytes),
         " bytes; content omitted in local text-only mode]">>

\* the reference rendering of the parts of the upload in flight: the trimmed
\* prompt, when there is one, then the placeholder of the file, with a blank
\* line between them
ReferenceRendering ==
  BlankLineJoined(
    (IF Truthy(request.body.prompt) THEN <<trim(request.body.prompt)>>
     ELSE <<>>)
      \o <<ReferenceAttachment(request.file)>>)

\* C16: the text LM Studio is given for an upload is the reference rendering
\* of its parts, in which the placeholder of the file holds the number of
\* bytes of the file as uploaded.
C16_RenderPartsAsText ==
  (/\ Held
   /\ request.route \in UploadRoutes
   /\ LmStudioServes
   /\ providerCalls # <<>>)
    => Last(LastCall.messages).content = ReferenceRendering

\* C19: in every state of operations racing through ensureClient the mode is
\* null exactly when no client is retained, 'genai' only with a client of the
\* primary SDK and 'generative-ai' only with a client of the legacy SDK.
C19_ModeMatchesClient ==
  /\ clientMode = "null" <=> client = NoClient
  /\ clientMode = "genai" => client.surface = "genai"
  /\ clientMode = "generative-ai" => client.surface = "generative-ai"
  /\ clientMode \in {"null", "genai", "generative-ai"}

C19_Witness ==
  /\ flights.constructed = 2
  /\ flights.at[1] = "ready"
  /\ flights.at[2] = "ready"
  /\ flights.owner = 2
  /\ clientMode = "generative-ai"
  /\ client.surface = "generative-ai"

\* C20: once a client and a mode are set, no step of any operation assigns
\* them again or constructs another client.
C20_InitialisedOnce ==
  [][client # NoClient
       => /\ client' = client
          /\ clientMode' = clientMode
          /\ flights'.constructed = flights.constructed]_vars

\* the payload of the provider call of the request in flight, from the
\* request, the configuration and the retained client alone
ExpectedPayload ==
  LET body == request.body
      chat == request.route \in ChatRoutes
      upload == request.route \in UploadRoutes
      prompt == IF chat THEN effectivePrompt(body.prompt, body.messages)
                ELSE body.prompt
      parts == IF upload THEN UploadParts(body, request.file) ELSE <<>>
      given == IF Truthy(body.systemInstruction) THEN body.systemInstruction
               ELSE Undefined
      generate == IF clientMode = "genai" /\ "responses.generate" \in client.caps
                  THEN "responses.generate" ELSE "generateContent"
  IN IF Adapter = "lmstudio"
     THEN [NoCall EXCEPT
             !.adapter = "lmstudio", !.kind = "POST", !.url = EndpointUrl,
             !.model = ExpectedLmModel,
             !.messages =
                IF chat
                THEN composeChatMessages(body.messages, body.systemInstruction,
                                         prompt)
                ELSE LmSystemMessage(body.systemInstruction)
                       \o <<[role |-> "user",
                             content |-> IF upload THEN coercePartsToText(parts)
                                         ELSE prompt]>>]
     ELSE IF chat /\ clientMode = "genai" /\ "chats.create" \in client.caps
     THEN [NoCall EXCEPT
             !.adapter = "gemini", !.kind = "chat.sendMessage",
             !.model = GeminiModelName(body.model),
             !.history = RetainedTurns(body.messages),
             !.systemInstruction = ExpectedInstruction(body),
             !.input = prompt]
     ELSE [NoCall EXCEPT
             !.adapter = "gemini", !.kind = generate,
             !.model = GeminiModelName(body.model),
             !.systemInstruction =
                IF generate # "responses.generate" THEN Undefined
                ELSE IF chat THEN ExpectedInstruction(body) ELSE given,
             !.input = IF upload THEN Undefined ELSE prompt,
             !.parts = parts]

C21_PrimaryThenLegacy ==
  /\ pc = "gemini.ensureClient.legacy" =>
       client = NoClient /\ clientMode = "null"
  /\ clientMode = "genai" =>
       client.caps \cap {"chats.create", "responses.generate"} # {}

\* C22: when the legacy construction fails after the primary one did, the
\* request ends in a 500 whose message carries the failure message of the
\* primary attempt and that of the legacy attempt, and the adapter retains no
\* client and no mode.
C22_BothFailuresReported ==
  [][(pc = "gemini.ensureClient.legacy" /\ pc' = "done") =>
       /\ http'.status = 500
       /\ http'.kind = "exception"
       /\ Contains(http'.message, warned.message)
       /\ \E e \in LegacyFailures : Contains(http'.message, e)
       /\ client' = NoClient
       /\ clientMode' = "null"]_vars

\* GeminiService.chat went on to a single-shot generate: the client offers no
\* chat session
FallbackGenerate ==
  /\ Held
  /\ Dispatched
  /\ adapterOps[1] = [adapter |-> "gemini", op |-> "chat"]
  /\ providerCalls # <<>>
  /\ LastCall.kind \in {"responses.generate", "generateContent"}

RECURSIVE NewlineJoined(_)
NewlineJoined(lines) ==
  IF lines = <<>> THEN Empty
  ELSE IF Len(lines) = 1 THEN lines[1]
  ELSE lines[1] \o <<"\n">> \o NewlineJoined(Tail(lines))

\* the transcript of a request: 'System: <instruction>' when there is an
\* instruction, then 'User: <content>' or 'Assistant: <content>' for each
\* retained turn in order, one per line
Transcript(body) ==
  LET instruction == ExpectedInstruction(body)
      turns == RetainedTurns(body.messages)
      sys == IF instruction = Undefined THEN <<>>
             ELSE <<(<<"System: ">> \o instruction)>>
      lines == [i \in DOMAIN turns |->
                 <<IF turns[i].role = "user" THEN "User: " ELSE "Assistant: ">>
                   \o turns[i].text]
  IN [turns |-> lines, text |-> NewlineJoined(sys \o lines)]

\* C23: when the Gemini client offers no chat session, chat makes one
\* single-shot generate call; the line of every retained history turn is
\* part of the prompt text sent, and with no explicit prompt that text is the
\* transcript.
C23_FallbackSendsTranscript ==
  FallbackGenerate =>
    LET transcript == Transcript(request.body)
    IN /\ Len(providerCalls) = 1
       /\ \A i \in DOMAIN transcript.turns :
            Contains(LastCall.input, transcript.turns[i])
       /\ ~ExplicitPrompt(request.body) => LastCall.input = transcript.text

\* the reconciler's own rule on a message list when no prompt is given: the
\* prompt it resolves, or its 'prompt is required' error
ReconcilerRule(messages) ==
  prepareChatPayload(Empty, mapMessagesToHistory(messages, <<>>).history)

\* a chat request with no explicit prompt has passed the provider check of
\* its route
DerivingChat ==
  /\ Held
  /\ request.route \in ChatRoutes
  /\ ~ExplicitPrompt(request.body)
  /\ request.route = "lm/api/chat" => http.message # InvalidProvider

\* C24: on the chat endpoints, with no explicit prompt, the boundary rejects
\* the request exactly when the reconciler's rule finds no prompt, passes the
\* adapter the prompt that rule resolves, and derives no prompt from a list
\* whose last message is not a user message.
C24_BoundaryAgreesWithReconciler ==
  DerivingChat =>
    LET messages == request.body.messages
        rule == ReconcilerRule(messages)
    IN /\ rule.error <=> (Rejected400 /\ http.message = PromptRequired)
       /\ (~rule.error /\ Dispatched /\ svc.op = "chat") =>
            svc.prompt = rule.promptToSend
       /\ (messages # <<>> /\ Last(messages).role # "user") => Rejected400

\* LmStudioService.chat has posted its message list and no answer has come
LmChatPosted ==
  /\ Held
  /\ Dispatched
  /\ svc.adapter = "lmstudio"
  /\ svc.op = "chat"
  /\ providerCalls # <<>>

HasUserMessage(list) == \E i \in DOMAIN list : list[i].role = "user"

\* the list in the order of the claim, for the request the adapter was given
ExpectedLmMessages(args) ==
  LET sys == IF Blank(args.systemInstruction) THEN <<>>
             ELSE <<[role |-> "system", content |-> trim(args.systemInstruction)]>>
      kept == SelectSeq(args.messages, LAMBDA m : ~Blank(m.content))
      prior == [i \in DOMAIN kept |->
                  [role |-> IF kept[i].role \in {"assistant", "system"}
                            THEN kept[i].role ELSE "user",
                   content |-> trim(kept[i].content)]]
      latest == IF Blank(args.prompt) THEN <<>>
                ELSE <<[role |-> "user", content |-> trim(args.prompt)]>>
      given == sys \o prior \o latest
  IN IF HasUserMessage(given) THEN given
     ELSE Append(given,
                 [role |-> "user",
                  content |-> <<"Please respond to the conversation above.">>])

\* C25: the message list LmStudioService.chat posts has a user message and is
\* the trimmed systemInstruction (when not blank), then the non-blank history
\* messages in order (assistant and system kept, any other role as user),
\* then the trimmed prompt (when not blank) as a user message, then the
\* placeholder user message when no user message came before.
C25_LmMessageOrder ==
  LmChatPosted =>
    /\ LastCall.messages = ExpectedLmMessages(svc)
    /\ HasUserMessage(LastCall.messages)

\* a history of one assistant message and no prompt: the placeholder is last
C25_Witness ==
  /\ LmChatPosted
  /\ Blank(svc.prompt)
  /\ LastCall.messages =
       <<[role |-> "assistant", content |-> <<"c">>],
         [role |-> "user",
          content |-> <<"Please respond to the conversation above.">>]>>

\* a controller invoked generateText or generateFromInlineParts and the
\* provider call has been made
GenerateCalled ==
  /\ Held
  /\ Dispatched
  /\ adapterOps[1].op \in {"generateText", "generateFromInlineParts"}
  /\ providerCalls # <<>>

\* C26: a non-blank systemInstruction of a generate or multimodal request is
\* forwarded with the provider call: as the request field in mode 'genai',
\* with the model call in mode 'generative-ai', as the leading system message
\* on LM Studio.
C26_InstructionForwarded ==
  (GenerateCalled /\ ~Blank(request.body.systemInstruction)) =>
    LET instruction == trim(request.body.systemInstruction)
    IN IF LastCall.adapter = "lmstudio"
       THEN LastCall.messages[1] = [role |-> "system", content |-> instruction]
       ELSE /\ IsString(LastCall.systemInstruction)
            /\ trim(LastCall.systemInstruction) = instruction

====
